---- MODULE Spec2Model ----
(***************************************************************************)
(* Model of the progression engine of src/main.go: the process-wide        *)
(* Player aggregate, the seven exported commands, the leveling curve and   *)
(* the JSON codec (encoding/json semantics for the Player shape).          *)
(*                                                                         *)
(* A Go map is modelled as [isNil, kv] and a Go slice as [isNil, s], so    *)
(* that a nil container and an empty one are different values, as they are *)
(* for json.Marshal ("null" against "{}" / "[]").                          *)
(* A time.Time is modelled as [t, mono, m]: t is the wall-clock instant in *)
(* days since the process started, mono tells whether the value carries a  *)
(* monotonic clock reading (time.Now() does, a decoded value does not),    *)
(* and m is that reading in days (0 when there is none).  The two clocks   *)
(* advance together.                                                       *)
(***************************************************************************)
EXTENDS Integers, Sequences, FiniteSets, TLC

VARIABLES
    player,   \* the process-wide Player (var player Player)
    now,      \* the wall clock (t) and the monotonic clock (m), in days
    nextId,   \* the index of the last id uuid.NewString() handed out (0: none)
    drawn,    \* the indices of the ids uuid.NewString() has handed out
    last,     \* the name of the last command called
    ret       \* the text the last command returned

vars == <<player, now, nextId, drawn, last, ret>>

(***************************************************************************)
(* Bounds of the model.                                                    *)
(***************************************************************************)
\* a class, project or quest is created only while the Player holds fewer
\* than MaxSize classes, projects, quests and history entries
MaxSize == 4

\* the instants, in days, at which commands are called: the start of the
\* process and thirty-one days later (a stored project last active on day 1
\* is then exactly thirty days old)
Instants == {0, 31}

\* the readings of the two clocks; the process starts with both at 0
Clocks == [t : Instants, m : Instants]
StartClock == [t |-> 0, m |-> 0]

\* the leveling runs start with a class at a level up to MaxLevel, and award
\* it up to MaxGain XP
MaxLevel == 3
MaxGain == 60

\* the hours argument of addQuestToProject
Hours == {-2, 0, 3, 34}

\* The ids handed out by uuid.NewString() are random and never repeat: the
\* order in which they are made says nothing about their order as strings.
\* The ids of a run are u1, u2, u3 and u4 (indices 1 to 4), which rise in
\* byte order, and a call hands out any one of them that no call has handed
\* out.
Uuid(i) == "u" \o ToString(i)

UuidIndices == {1, 2, 3, 4}

\* the indices the next id can have when the ids of the indices d are out
NextIds(d) == UuidIndices \ d

\* an id that names nothing (stored texts use the ids x1, x2, ...)
NoSuchId == "zz"

(***************************************************************************)
(* Go values.                                                              *)
(***************************************************************************)
EmptyKV == [k \in {} |-> 0]

NilMap == [isNil |-> TRUE, kv |-> EmptyKV]
MakeMap == [isNil |-> FALSE, kv |-> EmptyKV]

NilSlice == [isNil |-> TRUE, s |-> <<>>]
EmptySlice == [isNil |-> FALSE, s |-> <<>>]

\* v, ok := m[k]
Has(m, k) == k \in DOMAIN m.kv

\* m[k] = v on a non-nil map
Put(m, k, v) ==
    [isNil |-> FALSE,
     kv |-> [x \in (DOMAIN m.kv) \cup {k} |-> IF x = k THEN v ELSE m.kv[x]]]

\* delete(m, k)
Delete(m, k) ==
    [isNil |-> m.isNil, kv |-> [x \in (DOMAIN m.kv) \ {k} |-> m.kv[x]]]

\* append(s, e)
AppendSlice(sl, e) == [isNil |-> FALSE, s |-> Append(sl.s, e)]

\* the zero time.Time (year 1), in days relative to the start of the process
ZeroTimeDays == -739000

ZeroTime == [t |-> ZeroTimeDays, mono |-> FALSE, m |-> 0]

\* time.Now() when the clocks read n
TimeNow(n) == [t |-> n.t, mono |-> TRUE, m |-> n.m]

\* time.Hour * 24 * 30, in days
thirtyDays == 30

\* the largest Duration, 2^63 - 1 nanoseconds, in whole days
MaxDurationDays == 106751

\* a.Sub(b), in days: the difference of the monotonic readings when both
\* values carry one, and otherwise the difference of the wall clocks, which
\* saturates at the largest and the smallest Duration
Sub(a, b) ==
    IF a.mono /\ b.mono THEN a.m - b.m
    ELSE IF a.t - b.t > MaxDurationDays THEN MaxDurationDays
    ELSE IF a.t - b.t < -MaxDurationDays THEN -MaxDurationDays
    ELSE a.t - b.t

(***************************************************************************)
(* Go's int.  The program is built for GOARCH=wasm, where int is 64 bits   *)
(* wide, and +, -, ++ and += wrap around.                                  *)
(***************************************************************************)
IntBits == 64
MaxInt == 2^(IntBits - 1) - 1
MinInt == -(2^(IntBits - 1))

\* the value an int holds after an operation whose exact result is n (an n
\* within 32 bits is within 64 bits: the first test spares the evaluation of
\* 2^64 wherever it is not needed)
WrapInt(n) ==
    IF -2147483647 <= n /\ n <= 2147483647 THEN n
    ELSE ((n - MinInt) % (2^IntBits)) + MinInt

(***************************************************************************)
(* Leveling logic.                                                         *)
(***************************************************************************)
\* totalXPToReachLevel(level) = 10 * (level-1)^1.5 is irrational in general;
\* the model carries its square, 100 * (level-1)^3, which is an integer.
totalXPToReachLevelSq(level) ==
    IF level <= 1 THEN 0 ELSE 100 * (level - 1) * (level - 1) * (level - 1)

\* n >= sqrt(a) - sqrt(b), for n >= 0 and a > b >= 0, in integers:
\* n + sqrt(b) >= sqrt(a)  <=>  2n*sqrt(b) >= a - b - n^2
AtLeastDiffOfRoots(n, a, b) ==
    LET d == a - b - n * n
    IN  d <= 0 \/ 4 * n * n * b >= d * d

\* The code works the two totals out in float64 (math.Pow, one product, one
\* difference) and rounds the difference up.  Up to ExactCurveLevel the
\* error of that evaluation (below 2^-47 of a total) is smaller than the
\* distance of the exact difference from the integers around it, so the
\* result is the ceiling of the exact difference.
ExactCurveLevel == 1000000

\* Beyond ExactCurveLevel the result depends on how float64 rounds the
\* totals (above 2^53 they are not even integers any more, above 2^60 the
\* two totals can coincide), and for level = MaxInt on level + 1 wrapping
\* around and on the conversion to int of a float64 beyond its range, which
\* the language leaves to the implementation.  The model fixes no value for
\* these levels: each has some int.
Float64Curve == CHOOSE f \in [Int -> MinInt..MaxInt] : TRUE

\* the conversion to int without math.Ceil: the difference is truncated
calculateXPForLevel_Truncates(level) ==
    LET lv == IF level < 1 THEN 1 ELSE level
        xpForCurrentLevelSq == totalXPToReachLevelSq(lv)
        xpForNextLevelSq == totalXPToReachLevelSq(lv + 1)
        up == CHOOSE n \in 0..(15 * lv) :
                /\ AtLeastDiffOfRoots(n, xpForNextLevelSq, xpForCurrentLevelSq)
                /\ n > 0 => ~AtLeastDiffOfRoots(n - 1, xpForNextLevelSq, xpForCurrentLevelSq)
        d == xpForNextLevelSq - xpForCurrentLevelSq - up * up
        whole == d >= 0 /\ 4 * up * up * xpForCurrentLevelSq = d * d
    IN  IF lv > ExactCurveLevel THEN Float64Curve[lv]
        ELSE IF whole THEN up ELSE up - 1

calculateXPForLevel(level) ==
    LET lv == IF level < 1 THEN 1 ELSE level
        xpForCurrentLevelSq == totalXPToReachLevelSq(lv)
        xpForNextLevelSq == totalXPToReachLevelSq(lv + 1)
    IN  IF lv > ExactCurveLevel THEN Float64Curve[lv]
        ELSE \* math.Ceil(xpForNextLevel - xpForCurrentLevel)
             CHOOSE n \in 0..(15 * lv) :
                /\ AtLeastDiffOfRoots(n, xpForNextLevelSq, xpForCurrentLevelSq)
                /\ n > 0 => ~AtLeastDiffOfRoots(n - 1, xpForNextLevelSq, xpForCurrentLevelSq)

\* the level-up as an if in place of the for loop
internal_checkClassLevelUp_Once(class) ==
    IF class.xp >= class.xpToNextLevel
    THEN [class EXCEPT !.level = WrapInt(class.level + 1),
                       !.xp = WrapInt(class.xp - class.xpToNextLevel),
                       !.xpToNextLevel = calculateXPForLevel(WrapInt(class.level + 1))]
    ELSE class

\* the level-up starting the new level at xp = 0, the XP beyond the threshold
\* being dropped
internal_checkClassLevelUp_DropsRemainder(class) ==
    IF class.xp >= class.xpToNextLevel
    THEN [class EXCEPT !.level = WrapInt(class.level + 1),
                       !.xp = 0,
                       !.xpToNextLevel = calculateXPForLevel(WrapInt(class.level + 1))]
    ELSE class

\* one turn of the loop of internal_checkClassLevelUp: Level++, XP -=
\* XPToNextLevel, and the threshold of the new level
LevelUpIteration(class) ==
    [class EXCEPT !.level = WrapInt(class.level + 1),
                  !.xp = WrapInt(class.xp - class.xpToNextLevel),
                  !.xpToNextLevel = calculateXPForLevel(WrapInt(class.level + 1))]

RECURSIVE internal_checkClassLevelUp(_)
internal_checkClassLevelUp(class) ==
    IF class.xp >= class.xpToNextLevel
    THEN internal_checkClassLevelUp(LevelUpIteration(class))
    ELSE class

(***************************************************************************)
(* Data model.                                                             *)
(***************************************************************************)
ZeroClass == [id |-> "", name |-> "", color |-> "", level |-> 0, xp |-> 0,
              xpToNextLevel |-> 0]

ZeroQuest == [id |-> "", name |-> "", classId |-> "", xp |-> 0]

ZeroHistoryEntry == [questName |-> "", classId |-> "", xp |-> 0,
                     completedAt |-> ZeroTime]

ZeroProject == [id |-> "", name |-> "", createdAt |-> ZeroTime,
                lastActivity |-> ZeroTime, quests |-> NilMap,
                history |-> NilSlice, totalXp |-> 0, isArchived |-> FALSE]

\* the zero Player: var player Player, and var loadedPlayer Player
ZeroPlayer == [classes |-> NilMap, projects |-> NilMap]

\* Player{Classes: make(map[string]Class), Projects: make(map[string]Project)}
NewPlayer == [classes |-> MakeMap, projects |-> MakeMap]

(***************************************************************************)
(* JSON values, and texts.  A text is either one of the strings the code   *)
(* compares against, a text that is not JSON, or the rendering of a JSON   *)
(* value (any rendering other than the exact strings "null" and "{}").     *)
(*                                                                         *)
(* An object is the sequence of its members in document order, so that a   *)
(* key can occur twice.  Strings are atoms here, and the letters of an     *)
(* atom cannot be told apart, so a member <<key, folded, value>> gives its *)
(* key twice: as it is written, and case-folded (every letter in lower     *)
(* case, the long s and the Kelvin sign as s and k), which is the form     *)
(* under which json.Unmarshal looks a key up among the struct tags.        *)
(***************************************************************************)
JNull == [j |-> "null"]
\* a JSON number written as an integer literal within the range of int
JNum(n) == [j |-> "num", v |-> n]
\* a JSON number written with a fraction or an exponent (100.0, 1e2), and
\* an integer literal beyond the range of int
JFloat(n) == [j |-> "float", v |-> n]
JBigInt == [j |-> "bigint"]
\* a JSON string that is not in RFC 3339 form
JStr(x) == [j |-> "str", v |-> x]
JBool(b) == [j |-> "bool", v |-> b]
\* a JSON string in RFC 3339 form, naming the instant t
JTime(t) == [j |-> "time", v |-> t]
JObj(members) == [j |-> "obj", v |-> members]
JArr(q) == [j |-> "arr", v |-> q]

\* a member whose key holds no capital letter, and a member in general
Member(key, value) == <<key, key, value>>
MemberAs(key, folded, value) == <<key, folded, value>>

KeyOf(m) == m[1]
FoldedOf(m) == m[2]
ValueOf(m) == m[3]

\* the struct tags of the data model, case-folded
FoldedTag ==
    [classes |-> "classes", projects |-> "projects", id |-> "id",
     name |-> "name", color |-> "color", level |-> "level", xp |-> "xp",
     xpToNextLevel |-> "xptonextlevel", classId |-> "classid",
     questName |-> "questname", completedAt |-> "completedat",
     createdAt |-> "createdat", lastActivity |-> "lastactivity",
     quests |-> "quests", history |-> "history", totalXp |-> "totalxp",
     isArchived |-> "isarchived"]

\* the member json.Marshal writes for the struct field tagged tag
Tagged(tag, value) == <<tag, FoldedTag[tag], value>>

TextLit(x) == [k |-> "lit", s |-> x, v |-> JNull]
TextJson(v) == [k |-> "json", s |-> "", v |-> v]
TextMalformed == [k |-> "malformed", s |-> "", v |-> JNull]
\* no command has returned yet
NoText == [k |-> "none", s |-> "", v |-> JNull]

\* --- json.Marshal ---------------------------------------------------------
\* json.Marshal writes the keys of a map sorted as byte strings.  Strings
\* are atoms here: Bytes gives the bytes of the ids that occur in the model
\* (the ids uuid.NewString() hands out, the ids of the stored texts, and
\* NoSuchId), and the keys of a map are among these.
Bytes ==
    [u1 |-> <<117, 49>>, u2 |-> <<117, 50>>, u3 |-> <<117, 51>>,
     u4 |-> <<117, 52>>, u5 |-> <<117, 53>>, u6 |-> <<117, 54>>,
     u7 |-> <<117, 55>>, u8 |-> <<117, 56>>, u9 |-> <<117, 57>>,
     x1 |-> <<120, 49>>, x2 |-> <<120, 50>>, x3 |-> <<120, 51>>,
     x4 |-> <<120, 52>>, x9 |-> <<120, 57>>, zz |-> <<122, 122>>]

\* a < b as byte strings: at the first index where they differ a has the
\* smaller byte, or a is a proper prefix of b
BytewiseLess(a, b) ==
    \/ \E i \in 1..Len(a) :
          /\ i <= Len(b)
          /\ \A j \in 1..(i - 1) : a[j] = b[j]
          /\ a[i] < b[i]
    \/ /\ Len(a) < Len(b)
       /\ \A j \in 1..Len(a) : a[j] = b[j]

RECURSIVE KeysInOrder(_)
\* the keys S of a map, sorted: the least one first
KeysInOrder(S) ==
    IF S = {} THEN <<>>
    ELSE LET least == CHOOSE x \in S :
                        \A y \in S \ {x} : BytewiseLess(Bytes[x], Bytes[y])
         IN  <<least>> \o KeysInOrder(S \ {least})

\* the member written for a map entry: the key is an id, and the ids of the
\* model hold no capital letter
MapEntry(id, value) == Member(id, value)

\* time.Time.MarshalJSON: the wall-clock instant; the monotonic reading is dropped
MarshalTime(tm) == JTime(tm.t)

MarshalClass(c) ==
    JObj(<<Tagged("id", JStr(c.id)), Tagged("name", JStr(c.name)),
           Tagged("color", JStr(c.color)), Tagged("level", JNum(c.level)),
           Tagged("xp", JNum(c.xp)),
           Tagged("xpToNextLevel", JNum(c.xpToNextLevel))>>)

MarshalQuest(q) ==
    JObj(<<Tagged("id", JStr(q.id)), Tagged("name", JStr(q.name)),
           Tagged("classId", JStr(q.classId)), Tagged("xp", JNum(q.xp))>>)

MarshalHistoryEntry(h) ==
    JObj(<<Tagged("questName", JStr(h.questName)),
           Tagged("classId", JStr(h.classId)), Tagged("xp", JNum(h.xp)),
           Tagged("completedAt", MarshalTime(h.completedAt))>>)

\* json.Marshal of a map is null for a nil map and an object otherwise; of a
\* slice, null for a nil slice and an array otherwise
MarshalQuests(m) ==
    IF m.isNil THEN JNull
    ELSE LET keys == KeysInOrder(DOMAIN m.kv)
         IN  JObj([i \in 1..Len(keys) |->
                      MapEntry(keys[i], MarshalQuest(m.kv[keys[i]]))])

MarshalHistory(sl) ==
    IF sl.isNil THEN JNull
    ELSE JArr([i \in 1..Len(sl.s) |-> MarshalHistoryEntry(sl.s[i])])

MarshalProject(p) ==
    JObj(<<Tagged("id", JStr(p.id)), Tagged("name", JStr(p.name)),
           Tagged("createdAt", MarshalTime(p.createdAt)),
           Tagged("lastActivity", MarshalTime(p.lastActivity)),
           Tagged("quests", MarshalQuests(p.quests)),
           Tagged("history", MarshalHistory(p.history)),
           Tagged("totalXp", JNum(p.totalXp)),
           Tagged("isArchived", JBool(p.isArchived))>>)

MarshalClasses(m) ==
    IF m.isNil THEN JNull
    ELSE LET keys == KeysInOrder(DOMAIN m.kv)
         IN  JObj([i \in 1..Len(keys) |->
                      MapEntry(keys[i], MarshalClass(m.kv[keys[i]]))])

MarshalProjects(m) ==
    IF m.isNil THEN JNull
    ELSE LET keys == KeysInOrder(DOMAIN m.kv)
         IN  JObj([i \in 1..Len(keys) |->
                      MapEntry(keys[i], MarshalProject(m.kv[keys[i]]))])

MarshalPlayer(p) ==
    JObj(<<Tagged("classes", MarshalClasses(p.classes)),
           Tagged("projects", MarshalProjects(p.projects))>>)

\* time.Time.MarshalJSON returns an error for a year outside 0..9999: the
\* first day of the year 0 and of the year 10000, in days relative to the
\* start of the process
YearZeroDays == -739366
YearTenThousandDays == 2913059

TimeMarshals(tm) == YearZeroDays <= tm.t /\ tm.t < YearTenThousandDays

\* json.Marshal(p) returns an error: of the values a Player is made of
\* (maps, slices, strings, ints, bools, times) only a time can fail
MarshalFails(p) ==
    \E id \in DOMAIN p.projects.kv :
        LET project == p.projects.kv[id]
        IN  \/ ~TimeMarshals(project.createdAt)
            \/ ~TimeMarshals(project.lastActivity)
            \/ \E i \in DOMAIN project.history.s :
                  ~TimeMarshals(project.history.s[i].completedAt)

\* the text returned when json.Marshal fails
FallbackText == "{\"classes\":{}, \"projects\":{}}"

mustMarshal(p) ==
    IF MarshalFails(p) THEN TextLit(FallbackText)
    ELSE TextJson(MarshalPlayer(p))

\* --- json.Unmarshal -------------------------------------------------------
\* The members of an object are decoded one after the other.  A member whose
\* folded key is the folded tag of a field is decoded into that field, and
\* any other member is skipped.  A value of the wrong JSON type for its
\* field is an UnmarshalTypeError (for a time.Time, an error of its
\* UnmarshalJSON), and so is a number that is not an integer literal of int
\* for an int field; null is of every type.

\* the fields of each struct that hold no container, by folded tag: the tag
\* and the kind of Go type
ClassFields ==
    [id |-> <<"id", "string">>, name |-> <<"name", "string">>,
     color |-> <<"color", "string">>, level |-> <<"level", "int">>,
     xp |-> <<"xp", "int">>, xptonextlevel |-> <<"xpToNextLevel", "int">>]

\* the fields of a Quest whose ClassID is tagged "class_id": the key the
\* encoder writes, "classId", is then not one the decoder reads
QuestFields_OtherTag ==
    [id |-> <<"id", "string">>, name |-> <<"name", "string">>,
     class_id |-> <<"classId", "string">>, xp |-> <<"xp", "int">>]

QuestFields ==
    [id |-> <<"id", "string">>, name |-> <<"name", "string">>,
     classid |-> <<"classId", "string">>, xp |-> <<"xp", "int">>]

HistoryEntryFields ==
    [questname |-> <<"questName", "string">>,
     classid |-> <<"classId", "string">>, xp |-> <<"xp", "int">>,
     completedat |-> <<"completedAt", "time">>]

ProjectFields ==
    [id |-> <<"id", "string">>, name |-> <<"name", "string">>,
     createdat |-> <<"createdAt", "time">>,
     lastactivity |-> <<"lastActivity", "time">>,
     totalxp |-> <<"totalXp", "int">>, isarchived |-> <<"isArchived", "bool">>]

\* the JSON values a field of each kind takes
ScalarOk(kind, v) ==
    \/ v.j = "null"
    \/ kind = "int" /\ v.j = "num"
    \/ kind = "string" /\ v.j \in {"str", "time"}
    \/ kind = "bool" /\ v.j = "bool"
    \/ kind = "time" /\ v.j = "time"

\* a string field takes any JSON string, one in RFC 3339 form included
TimeString(t) == "T" \o ToString(t)

\* the field after a value of its type is decoded into it: null leaves it
\* as it is, and a decoded time.Time carries no monotonic reading
Store(kind, v, old) ==
    IF v.j = "null" THEN old
    ELSE IF kind = "time" THEN [t |-> v.v, mono |-> FALSE, m |-> 0]
    ELSE IF kind = "string" /\ v.j = "time" THEN TimeString(v.v)
    ELSE v.v

\* every member that names one of the fields has a value of its type
ScalarsOk(members, fields) ==
    \A i \in DOMAIN members :
        FoldedOf(members[i]) \in DOMAIN fields
        => ScalarOk(fields[FoldedOf(members[i])][2], ValueOf(members[i]))

\* one member decoded into a struct
StoreMember(m, fields, struct) ==
    IF FoldedOf(m) \in DOMAIN fields
    THEN LET field == fields[FoldedOf(m)]
         IN  [struct EXCEPT ![field[1]] = Store(field[2], ValueOf(m), @)]
    ELSE struct

RECURSIVE DecodeScalars(_, _, _)
\* the members decoded into a struct, in document order: when a field is
\* named twice, the later value that is not null stays
DecodeScalars(members, fields, struct) ==
    IF members = <<>> THEN struct
    ELSE DecodeScalars(Tail(members), fields,
                       StoreMember(Head(members), fields, struct))

ClassOk(v) ==
    v.j = "null" \/ (v.j = "obj" /\ ScalarsOk(v.v, ClassFields))

\* a Class decoded as the element of a map: into a zero Class
UnmarshalClass(v) ==
    IF v.j = "null" THEN ZeroClass
    ELSE DecodeScalars(v.v, ClassFields, ZeroClass)

QuestOk(v) ==
    v.j = "null" \/ (v.j = "obj" /\ ScalarsOk(v.v, QuestFields))

UnmarshalQuest_OtherTag(v) ==
    IF v.j = "null" THEN ZeroQuest
    ELSE DecodeScalars(v.v, QuestFields_OtherTag, ZeroQuest)

UnmarshalQuest(v) ==
    IF v.j = "null" THEN ZeroQuest
    ELSE DecodeScalars(v.v, QuestFields, ZeroQuest)

HistoryEntryOk(v) ==
    v.j = "null" \/ (v.j = "obj" /\ ScalarsOk(v.v, HistoryEntryFields))

\* a HistoryEntry decoded as the element of a slice: into the element the
\* backing array holds at that index
DecodeHistoryEntry(v, old) ==
    IF v.j = "null" THEN old
    ELSE DecodeScalars(v.v, HistoryEntryFields, old)

UnmarshalHistoryEntry(v) == DecodeHistoryEntry(v, ZeroHistoryEntry)

RECURSIVE DecodeQuests(_, _)
\* the members of an object decoded into a map of quests: each value is
\* decoded into a zero Quest and stored under its key, a later member
\* replacing an earlier one of the same key
DecodeQuests(members, m) ==
    IF members = <<>> THEN m
    ELSE DecodeQuests(Tail(members),
                      Put(m, KeyOf(Head(members)),
                          UnmarshalQuest(ValueOf(Head(members)))))

\* the value of "quests" decoded into the field: null makes the map nil, an
\* object adds to the map the field holds (made when it is nil)
UnmarshalQuests(v, old) ==
    IF v.j = "null" THEN NilMap
    ELSE DecodeQuests(v.v, IF old.isNil THEN MakeMap ELSE old)

\* The value of "history" decoded into the field.  old is the slice the
\* field holds and spare what its backing array holds beyond its length:
\* null makes the slice nil, an empty array makes a new empty slice, and the
\* elements of any other array are decoded into the backing array, index by
\* index, before the slice is cut to the length of the array.
UnmarshalHistory(v, old, spare) ==
    IF v.j = "null" THEN [sl |-> NilSlice, spare |-> <<>>]
    ELSE IF v.v = <<>> THEN [sl |-> EmptySlice, spare |-> <<>>]
    ELSE LET backing == old.s \o spare
             at(i) == IF i <= Len(backing) THEN backing[i] ELSE ZeroHistoryEntry
         IN  [sl |-> [isNil |-> FALSE,
                      s |-> [i \in 1..Len(v.v) |-> DecodeHistoryEntry(v.v[i], at(i))]],
              spare |-> SubSeq(backing, Len(v.v) + 1, Len(backing))]

QuestsOk(v) ==
    v.j = "null" \/ (v.j = "obj" /\ \A i \in DOMAIN v.v : QuestOk(ValueOf(v.v[i])))

HistoryOk(v) ==
    v.j = "null" \/ (v.j = "arr" /\ \A i \in DOMAIN v.v : HistoryEntryOk(v.v[i]))

ProjectOk(v) ==
    v.j = "null" \/
    /\ v.j = "obj"
    /\ ScalarsOk(v.v, ProjectFields)
    /\ \A i \in DOMAIN v.v :
          /\ FoldedOf(v.v[i]) = "quests" => QuestsOk(ValueOf(v.v[i]))
          /\ FoldedOf(v.v[i]) = "history" => HistoryOk(ValueOf(v.v[i]))

RECURSIVE DecodeProject(_, _, _)
\* the members of an object decoded into a Project, in document order
DecodeProject(members, project, spare) ==
    IF members = <<>> THEN project
    ELSE LET m == Head(members)
         IN  IF FoldedOf(m) = "quests"
             THEN DecodeProject(Tail(members),
                      [project EXCEPT !.quests = UnmarshalQuests(ValueOf(m), @)],
                      spare)
             ELSE IF FoldedOf(m) = "history"
             THEN LET got == UnmarshalHistory(ValueOf(m), project.history, spare)
                  IN  DecodeProject(Tail(members),
                                    [project EXCEPT !.history = got.sl], got.spare)
             ELSE DecodeProject(Tail(members),
                                StoreMember(m, ProjectFields, project), spare)

\* a Project decoded as the element of a map: into a zero Project
UnmarshalProject(v) ==
    IF v.j = "null" THEN ZeroProject
    ELSE DecodeProject(v.v, ZeroProject, <<>>)

RECURSIVE DecodeClasses(_, _)
DecodeClasses(members, m) ==
    IF members = <<>> THEN m
    ELSE DecodeClasses(Tail(members),
                       Put(m, KeyOf(Head(members)),
                           UnmarshalClass(ValueOf(Head(members)))))

UnmarshalClasses(v, old) ==
    IF v.j = "null" THEN NilMap
    ELSE DecodeClasses(v.v, IF old.isNil THEN MakeMap ELSE old)

RECURSIVE DecodeProjects(_, _)
DecodeProjects(members, m) ==
    IF members = <<>> THEN m
    ELSE DecodeProjects(Tail(members),
                        Put(m, KeyOf(Head(members)),
                            UnmarshalProject(ValueOf(Head(members)))))

UnmarshalProjects(v, old) ==
    IF v.j = "null" THEN NilMap
    ELSE DecodeProjects(v.v, IF old.isNil THEN MakeMap ELSE old)

ClassesOk(v) ==
    v.j = "null" \/ (v.j = "obj" /\ \A i \in DOMAIN v.v : ClassOk(ValueOf(v.v[i])))

ProjectsOk(v) ==
    v.j = "null" \/ (v.j = "obj" /\ \A i \in DOMAIN v.v : ProjectOk(ValueOf(v.v[i])))

PlayerOk(v) ==
    v.j = "null" \/
    /\ v.j = "obj"
    /\ \A i \in DOMAIN v.v :
          /\ FoldedOf(v.v[i]) = "classes" => ClassesOk(ValueOf(v.v[i]))
          /\ FoldedOf(v.v[i]) = "projects" => ProjectsOk(ValueOf(v.v[i]))

RECURSIVE DecodePlayer(_, _)
\* the members of an object decoded into a Player, in document order
DecodePlayer(members, pl) ==
    IF members = <<>> THEN pl
    ELSE LET m == Head(members)
         IN  DecodePlayer(Tail(members),
                 IF FoldedOf(m) = "classes"
                 THEN [pl EXCEPT !.classes = UnmarshalClasses(ValueOf(m), @)]
                 ELSE IF FoldedOf(m) = "projects"
                 THEN [pl EXCEPT !.projects = UnmarshalProjects(ValueOf(m), @)]
                 ELSE pl)

\* json.Unmarshal into var loadedPlayer Player
UnmarshalPlayer(v) ==
    IF v.j = "null" THEN ZeroPlayer
    ELSE DecodePlayer(v.v, ZeroPlayer)

\* the JSON value a text parses to
ParseOk(text) ==
    \/ text.k = "json"
    \/ text.k = "lit" /\ text.s \in {"null", "{}", FallbackText}

Parse(text) ==
    IF text.k = "json" THEN text.v
    ELSE IF text.s = "null" THEN JNull
    ELSE IF text.s = FallbackText
    THEN JObj(<<Member("classes", JObj(<<>>)), Member("projects", JObj(<<>>))>>)
    ELSE JObj(<<>>)

\* err := json.Unmarshal([]byte(jsonString), &loadedPlayer)
UnmarshalFails(text) == ~ParseOk(text) \/ ~PlayerOk(Parse(text))

(***************************************************************************)
(* The commands, as functions of the Player and of their arguments.        *)
(***************************************************************************)
getPlayerData == NewPlayer

\* loadPlayerData without the write-back loadedPlayer.Projects[id] = proj
loadPlayerData_NoWriteBack(jsonString) ==
    IF jsonString.k = "lit" /\ jsonString.s \in {"", "null", "{}"}
    THEN NewPlayer
    ELSE IF UnmarshalFails(jsonString)
    THEN NewPlayer
    ELSE LET loadedPlayer == UnmarshalPlayer(Parse(jsonString))
         IN  [classes |-> IF loadedPlayer.classes.isNil THEN MakeMap
                          ELSE loadedPlayer.classes,
              projects |-> IF loadedPlayer.projects.isNil THEN MakeMap
                           ELSE loadedPlayer.projects]

loadPlayerData(jsonString) ==
    IF jsonString.k = "lit" /\ jsonString.s \in {"", "null", "{}"}
    THEN NewPlayer
    ELSE IF UnmarshalFails(jsonString)
    THEN NewPlayer
    ELSE LET loadedPlayer == UnmarshalPlayer(Parse(jsonString))
             classes == IF loadedPlayer.classes.isNil THEN MakeMap
                        ELSE loadedPlayer.classes
             projects == IF loadedPlayer.projects.isNil THEN MakeMap
                         ELSE loadedPlayer.projects
             fix(proj) ==
                 [proj EXCEPT
                    !.quests = IF proj.quests.isNil THEN MakeMap ELSE proj.quests,
                    !.history = IF proj.history.isNil THEN EmptySlice
                                ELSE proj.history]
         IN  [classes |-> classes,
              projects |-> [isNil |-> FALSE,
                            kv |-> [id \in DOMAIN projects.kv |-> fix(projects.kv[id])]]]

\* createClass making the map anew at every call, not only when it is nil
createClass_FreshMap(pl, name, color, id) ==
    LET newClass == [id |-> id, name |-> name, color |-> color, level |-> 1,
                     xp |-> 0, xpToNextLevel |-> calculateXPForLevel(1)]
    IN  [pl EXCEPT !.classes = Put(MakeMap, id, newClass)]

createClass(pl, name, color, id) ==
    LET newClass == [id |-> id, name |-> name, color |-> color, level |-> 1,
                     xp |-> 0, xpToNextLevel |-> calculateXPForLevel(1)]
        classes == IF pl.classes.isNil THEN MakeMap ELSE pl.classes
    IN  [pl EXCEPT !.classes = Put(classes, id, newClass)]

createProject(pl, name, id, tnow) ==
    LET newProject == [id |-> id, name |-> name, createdAt |-> TimeNow(tnow),
                       lastActivity |-> TimeNow(tnow), quests |-> MakeMap,
                       history |-> EmptySlice, totalXp |-> 0,
                       isArchived |-> FALSE]
        projects == IF pl.projects.isNil THEN MakeMap ELSE pl.projects
    IN  [pl EXCEPT !.projects = Put(projects, id, newProject)]

\* addQuestToProject testing hours < 0 in place of hours <= 0
addQuestRejected_ZeroHours(pl, projectID, classID, hours) ==
    \/ ~Has(pl.projects, projectID)
    \/ ~Has(pl.classes, classID)
    \/ hours < 0

\* addQuestToProject without the lookup of the class
addQuestRejected_NoClassCheck(pl, projectID, classID, hours) ==
    \/ ~Has(pl.projects, projectID)
    \/ hours <= 0

\* addQuestToProject refusing a project that has been archived
addQuestRejected_WhenArchived(pl, projectID, classID, hours) ==
    \/ ~Has(pl.projects, projectID)
    \/ Has(pl.projects, projectID) /\ pl.projects.kv[projectID].isArchived
    \/ ~Has(pl.classes, classID)
    \/ hours <= 0

\* the three early returns of addQuestToProject
addQuestRejected(pl, projectID, classID, hours) ==
    \/ ~Has(pl.projects, projectID)
    \/ ~Has(pl.classes, classID)
    \/ hours <= 0

addQuestToProject(pl, projectID, classID, questName, hours, id, tnow) ==
    IF addQuestRejected(pl, projectID, classID, hours)
    THEN pl
    ELSE LET project == pl.projects.kv[projectID]
             newQuest == [id |-> id, name |-> questName, classId |-> classID,
                          xp |-> hours]
             quests == IF project.quests.isNil THEN MakeMap ELSE project.quests
         IN  [pl EXCEPT !.projects =
                Put(pl.projects, projectID,
                    [project EXCEPT !.quests = Put(quests, id, newQuest),
                                    !.lastActivity = TimeNow(tnow)])]

\* the two early returns of completeQuest
completeQuestRejected(pl, projectID, questID) ==
    \/ ~Has(pl.projects, projectID)
    \/ ~Has(pl.projects.kv[projectID].quests, questID)

\* completeQuest without delete(project.Quests, questID)
completedProject_KeepsQuest(project, questID, tnow, tlater) ==
    LET quest == project.quests.kv[questID]
        historyEntry == [questName |-> quest.name, classId |-> quest.classId,
                         xp |-> quest.xp, completedAt |-> TimeNow(tnow)]
    IN  [project EXCEPT
            !.history = AppendSlice(project.history, historyEntry),
            !.totalXp = WrapInt(project.totalXp + quest.xp),
            !.lastActivity = TimeNow(tlater)]

\* completeQuest putting the new entry first, as the habit variant does
completedProject_Prepends(project, questID, tnow, tlater) ==
    LET quest == project.quests.kv[questID]
        historyEntry == [questName |-> quest.name, classId |-> quest.classId,
                         xp |-> quest.xp, completedAt |-> TimeNow(tnow)]
    IN  [project EXCEPT
            !.history = [isNil |-> FALSE, s |-> <<historyEntry>> \o project.history.s],
            !.totalXp = WrapInt(project.totalXp + quest.xp),
            !.quests = Delete(project.quests, questID),
            !.lastActivity = TimeNow(tlater)]

\* completeQuest with project.TotalXP = quest.XP in place of +=
completedProject_SetsTotal(project, questID, tnow, tlater) ==
    LET quest == project.quests.kv[questID]
        historyEntry == [questName |-> quest.name, classId |-> quest.classId,
                         xp |-> quest.xp, completedAt |-> TimeNow(tnow)]
    IN  [project EXCEPT
            !.history = AppendSlice(project.history, historyEntry),
            !.totalXp = quest.xp,
            !.quests = Delete(project.quests, questID),
            !.lastActivity = TimeNow(tlater)]

\* steps 1 to 4 of completeQuest, on the copy of the project; the clock is
\* read twice, for CompletedAt (tnow) and later for LastActivity (tlater)
completedProject(project, questID, tnow, tlater) ==
    LET quest == project.quests.kv[questID]
        historyEntry == [questName |-> quest.name, classId |-> quest.classId,
                         xp |-> quest.xp, completedAt |-> TimeNow(tnow)]
    IN  [project EXCEPT
            !.history = AppendSlice(project.history, historyEntry),
            !.totalXp = WrapInt(project.totalXp + quest.xp),
            !.quests = Delete(project.quests, questID),
            !.lastActivity = TimeNow(tlater)]

\* completeQuest without the write-back player.Classes[quest.ClassID] = class
awardedClasses_NoWriteBack(classes, quest) == classes

\* step 5 without the ok test: the zero Class that the map lookup gives for
\* a missing key is credited and stored
awardedClasses_NoOkCheck(classes, quest) ==
    LET class == IF Has(classes, quest.classId)
                 THEN classes.kv[quest.classId] ELSE ZeroClass
    IN  Put(classes, quest.classId,
            internal_checkClassLevelUp(
                     [class EXCEPT !.xp = WrapInt(class.xp + quest.xp)]))

\* step 5 of completeQuest: the XP goes to the quest's class, if there is one
awardedClasses(classes, quest) ==
    IF Has(classes, quest.classId)
    THEN LET class == classes.kv[quest.classId]
         IN  Put(classes, quest.classId,
                 internal_checkClassLevelUp(
                     [class EXCEPT !.xp = WrapInt(class.xp + quest.xp)]))
    ELSE classes

completeQuest(pl, projectID, questID, tnow, tlater) ==
    IF completeQuestRejected(pl, projectID, questID)
    THEN pl
    ELSE LET project == pl.projects.kv[projectID]
             quest == project.quests.kv[questID]
         IN  [classes |-> awardedClasses(pl.classes, quest),
              projects |-> Put(pl.projects, projectID,
                               completedProject(project, questID, tnow, tlater))]

\* archiveInactiveProjects testing >= thirtyDays in place of > thirtyDays
isStale_AtThirtyDays(project, tnow) ==
    ~project.isArchived /\ Sub(TimeNow(tnow), project.lastActivity) >= thirtyDays

\* the test of archiveInactiveProjects on one project
isStale(project, tnow) ==
    ~project.isArchived /\ Sub(TimeNow(tnow), project.lastActivity) > thirtyDays

\* archiveInactiveProjects setting the flag of every project to its staleness
archiveInactiveProjects_Recomputes(pl, tnow) ==
    [pl EXCEPT !.projects.kv =
        [id \in DOMAIN pl.projects.kv |->
            [pl.projects.kv[id] EXCEPT !.isArchived =
                Sub(TimeNow(tnow), pl.projects.kv[id].lastActivity) > thirtyDays]]]

\* archiveInactiveProjects counting the archiving itself as activity
archiveInactiveProjects_Stamps(pl, tnow) ==
    [pl EXCEPT !.projects.kv =
        [id \in DOMAIN pl.projects.kv |->
            IF isStale(pl.projects.kv[id], tnow)
            THEN [pl.projects.kv[id] EXCEPT !.isArchived = TRUE,
                                            !.lastActivity = TimeNow(tnow)]
            ELSE pl.projects.kv[id]]]

archiveInactiveProjects(pl, tnow) ==
    [pl EXCEPT !.projects.kv =
        [id \in DOMAIN pl.projects.kv |->
            IF isStale(pl.projects.kv[id], tnow)
            THEN [pl.projects.kv[id] EXCEPT !.isArchived = TRUE]
            ELSE pl.projects.kv[id]]]

(***************************************************************************)
(* The texts a caller hands to loadPlayerData, besides the text the last   *)
(* command returned: the three strings the code tests for, a text that is  *)
(* not JSON, three texts of the wrong shape, and two stored documents, in  *)
(* which some keys are spelled in another case and some are given twice.   *)
(***************************************************************************)
\* {"projects":{
\*    "x2":{"id":"x2","name":"Site","LastActivity":"<day 1>"},
\*    "x3":{"id":"x3","name":"Old","createdAt":"<day 0>","lastActivity":"<day 0>",
\*          "quests":{"x1":{"id":"x1","name":"Fix bug","CLASSID":"x9","xp":3}},
\*          "history":[{"questName":"Done","classId":"x9","xp":1,
\*                      "completedAt":"<day 0>"},{"questName":"Gone"}],
\*          "HISTORY":[{"xp":4}],
\*          "TotalXP":4,"IsArchived":true,"isarchived":null}}}
\* a project only partly populated, and a project with a quest and a history
\* entry that name a class the document does not hold
StoredProjects ==
    TextJson(JObj(<<
        Member("projects", JObj(<<
            Member("x2", JObj(<<
                Member("id", JStr("x2")), Member("name", JStr("Site")),
                MemberAs("LastActivity", "lastactivity", JTime(1))>>)),
            Member("x3", JObj(<<
                Member("id", JStr("x3")), Member("name", JStr("Old")),
                MemberAs("createdAt", "createdat", JTime(0)),
                MemberAs("lastActivity", "lastactivity", JTime(0)),
                Member("quests", JObj(<<
                    Member("x1", JObj(<<
                        Member("id", JStr("x1")),
                        Member("name", JStr("Fix bug")),
                        MemberAs("CLASSID", "classid", JStr("x9")),
                        Member("xp", JNum(3))>>))>>)),
                Member("history", JArr(<<
                    JObj(<<MemberAs("questName", "questname", JStr("Done")),
                           MemberAs("classId", "classid", JStr("x9")),
                           Member("xp", JNum(1)),
                           MemberAs("completedAt", "completedat", JTime(0))>>),
                    JObj(<<MemberAs("questName", "questname", JStr("Gone"))>>)>>)),
                MemberAs("HISTORY", "history", JArr(<<
                    JObj(<<Member("xp", JNum(4))>>)>>)),
                MemberAs("TotalXP", "totalxp", JNum(4)),
                MemberAs("IsArchived", "isarchived", JBool(TRUE)),
                Member("isarchived", JNull)>>))>>))>>))

\* {"classes":{
\*    "x1":{"id":"x1","name":"Coding","color":"#fff","LEVEL":1,"xp":1,"xP":5,
\*          "xpToNextLevel":3},
\*    "x4":{"id":"x4","name":"Reading"}},
\*  "projects":null}
\* classes written by another program, one of them without its leveling
\* fields, and the projects given as null
StoredClasses ==
    TextJson(JObj(<<
        Member("classes", JObj(<<
            Member("x1", JObj(<<
                Member("id", JStr("x1")), Member("name", JStr("Coding")),
                Member("color", JStr("#fff")),
                MemberAs("LEVEL", "level", JNum(1)),
                Member("xp", JNum(1)), MemberAs("xP", "xp", JNum(5)),
                MemberAs("xpToNextLevel", "xptonextlevel", JNum(3))>>)),
            Member("x4", JObj(<<
                Member("id", JStr("x4")), Member("name", JStr("Reading"))>>))>>)),
        Member("projects", JNull)>>))

\* {"cLASSES":5}: a number where the classes are expected
WrongShape == TextJson(JObj(<<MemberAs("cLASSES", "classes", JNum(5))>>))

\* {"classes":{"x1":{"id":"x1","xp":1e2}}}: an xp written as 1e2
FloatForInt ==
    TextJson(JObj(<<
        Member("classes", JObj(<<
            Member("x1", JObj(<<Member("id", JStr("x1")),
                                Member("xp", JFloat(100))>>))>>))>>))

\* {"classes":{"x1":{"id":"x1","Level":9223372036854775808}}}: a level
\* beyond int
BeyondInt64 ==
    TextJson(JObj(<<
        Member("classes", JObj(<<
            Member("x1", JObj(<<Member("id", JStr("x1")),
                                MemberAs("Level", "level", JBigInt)>>))>>))>>))

\* {"classes":{"x1":{"id":"x1","xp":1,"XP":"a"}}}: the second of two values
\* of xp is a string
SecondValueWrong ==
    TextJson(JObj(<<
        Member("classes", JObj(<<
            Member("x1", JObj(<<Member("id", JStr("x1")),
                                Member("xp", JNum(1)),
                                MemberAs("XP", "xp", JStr("a"))>>))>>))>>))

LoadTexts ==
    {TextLit(""), TextLit("null"), TextLit("{}"), TextMalformed, WrongShape,
     FloatForInt, BeyondInt64, SecondValueWrong, StoredProjects, StoredClasses}

(***************************************************************************)
(* The arguments a caller passes: every id the Player holds, and one that  *)
(* names nothing.                                                          *)
(***************************************************************************)
ProjectIdsOf(pl) == DOMAIN pl.projects.kv
ClassIdsOf(pl) == DOMAIN pl.classes.kv
QuestIdsOf(pl) ==
    UNION {DOMAIN pl.projects.kv[p].quests.kv : p \in ProjectIdsOf(pl)}

ProjectArgs(pl) == ProjectIdsOf(pl) \cup {NoSuchId}
ClassArgs(pl) == ClassIdsOf(pl) \cup {NoSuchId}
QuestArgs(pl) == QuestIdsOf(pl) \cup {NoSuchId}

(***************************************************************************)
(* The state machine: one action per exported command, and the clock.      *)
(***************************************************************************)
\* classes, projects, active quests and history entries of a Player
Size(pl) ==
    Cardinality(ClassIdsOf(pl)) + Cardinality(ProjectIdsOf(pl))
    + Cardinality(QuestIdsOf(pl))
    + Cardinality(UNION {{<<p, i>> : i \in 1..Len(pl.projects.kv[p].history.s)} :
                             p \in ProjectIdsOf(pl)})

CanCreate == NextIds(drawn) # {} /\ Size(player) < MaxSize

Init ==
    /\ player = ZeroPlayer
    /\ now = StartClock
    /\ nextId = 0
    /\ drawn = {}
    /\ last = "main"
    /\ ret = NoText

GetPlayerData ==
    /\ player' = getPlayerData
    /\ ret' = mustMarshal(player')
    /\ last' = "getPlayerData"
    /\ UNCHANGED <<now, nextId, drawn>>

LoadPlayerData ==
    \E jsonString \in LoadTexts :
        /\ player' = loadPlayerData(jsonString)
        /\ ret' = mustMarshal(player')
        /\ last' = "loadPlayerData"
        /\ UNCHANGED <<now, nextId, drawn>>

CreateClass ==
    \E i \in NextIds(drawn) :
        /\ CanCreate
        /\ player' = createClass(player, "Coding", "#fff", Uuid(i))
        /\ nextId' = i
        /\ drawn' = drawn \cup {i}
        /\ ret' = mustMarshal(player')
        /\ last' = "createClass"
        /\ UNCHANGED now

CreateProject ==
    \E i \in NextIds(drawn) :
        /\ CanCreate
        /\ player' = createProject(player, "Site", Uuid(i), now)
        /\ nextId' = i
        /\ drawn' = drawn \cup {i}
        /\ ret' = mustMarshal(player')
        /\ last' = "createProject"
        /\ UNCHANGED now

\* the arguments of the calls of addQuestToProject
AddQuestArgs(pl) == ProjectArgs(pl) \X ClassArgs(pl) \X Hours

\* The calls that pass the three checks draw an id and read the clock.  The
\* calls that do not pass return before either (lines 218-233): one of them
\* is run for all.
AddQuestToProject ==
    \/ \E a \in AddQuestArgs(player), i \in NextIds(drawn) :
          /\ ~addQuestRejected(player, a[1], a[2], a[3])
          /\ CanCreate
          /\ player' = addQuestToProject(player, a[1], a[2], "Fix bug", a[3],
                                         Uuid(i), now)
          /\ nextId' = i
          /\ drawn' = drawn \cup {i}
          /\ ret' = mustMarshal(player')
          /\ last' = "addQuestToProject"
          /\ UNCHANGED now
    \/ LET a == CHOOSE a \in AddQuestArgs(player) :
                    addQuestRejected(player, a[1], a[2], a[3])
       IN  /\ player' = addQuestToProject(player, a[1], a[2], "Fix bug", a[3],
                                          NoSuchId, now)
           /\ ret' = mustMarshal(player')
           /\ last' = "addQuestToProject"
           /\ UNCHANGED <<now, nextId, drawn>>

\* the readings the clocks give at or after the reading n when both advance
\* together
LaterClocks(n) == {c \in Clocks : c.m >= n.m /\ c.t - n.t = c.m - n.m}

\* the readings the clocks give at or after the reading n when the wall
\* clock of the host can be set meanwhile
LaterClocksSet(n) == {c \in Clocks : c.m >= n.m}

\* the arguments of the calls of completeQuest
CompleteQuestArgs(pl) == ProjectArgs(pl) \X QuestArgs(pl)

\* completeQuest reads the clock twice: time passes between the two
\* readings.  The calls that find no project or no quest return before they
\* read it (lines 260-271): one of them is run for all.
CompleteQuest ==
    \/ \E a \in CompleteQuestArgs(player), later \in LaterClocks(now) :
          /\ ~completeQuestRejected(player, a[1], a[2])
          /\ player' = completeQuest(player, a[1], a[2], now, later)
          /\ now' = later
          /\ ret' = mustMarshal(player')
          /\ last' = "completeQuest"
          /\ UNCHANGED <<nextId, drawn>>
    \/ LET a == CHOOSE a \in CompleteQuestArgs(player) :
                    completeQuestRejected(player, a[1], a[2])
       IN  /\ player' = completeQuest(player, a[1], a[2], now, now)
           /\ ret' = mustMarshal(player')
           /\ last' = "completeQuest"
           /\ UNCHANGED <<now, nextId, drawn>>

ArchiveInactiveProjects ==
    /\ player' = archiveInactiveProjects(player, now)
    /\ ret' = mustMarshal(player')
    /\ last' = "archiveInactiveProjects"
    /\ UNCHANGED <<now, nextId, drawn>>

\* time passes between two commands: both clocks advance by as much
Tick ==
    \E t \in Instants :
        /\ t > now.t
        /\ now.m + (t - now.t) \in Instants
        /\ now' = [t |-> t, m |-> now.m + (t - now.t)]
        /\ UNCHANGED <<player, nextId, drawn, last, ret>>

\* the commands that work on the Player in place
NextCommands ==
    \/ CreateClass
    \/ CreateProject
    \/ AddQuestToProject
    \/ CompleteQuest
    \/ ArchiveInactiveProjects
    \/ Tick

Next ==
    \/ GetPlayerData
    \/ LoadPlayerData
    \/ NextCommands

Spec == Init /\ [][Next]_vars

\* the runs that start with an empty Player and never load a text
NextFromInitialize ==
    \/ GetPlayerData
    \/ NextCommands

SpecFromInitialize == Init /\ [][NextFromInitialize]_vars

(***************************************************************************)
(* Helpers of the properties.                                              *)
(***************************************************************************)
Classes(pl) == pl.classes.kv
Projects(pl) == pl.projects.kv

RECURSIVE SumXp(_)
\* the sum of the xp of a sequence of history entries
SumXp(h) == IF h = <<>> THEN 0 ELSE h[1].xp + SumXp(Tail(h))

RECURSIVE XpForLevels(_, _)
\* the sum of xpForLevel(k) for from <= k < to
XpForLevels(from, to) ==
    IF from >= to THEN 0
    ELSE calculateXPForLevel(from) + XpForLevels(from + 1, to)

\* the step is made by one of the five commands that work on the Player in
\* place (or by the clock after one of them)
CommandStep ==
    last' \in {"createClass", "createProject", "addQuestToProject",
               "completeQuest", "archiveInactiveProjects"}

\* the step is made by the clock alone
ClockStep == now' # now /\ UNCHANGED <<player, nextId, drawn, last, ret>>

IsPrefix(a, b) == Len(a) <= Len(b) /\ \A i \in 1..Len(a) : a[i] = b[i]

(***************************************************************************)
(* C1.  After any command, load of any text included, every class of the   *)
(* Player has xp < xpToNextLevel.                                          *)
(***************************************************************************)
C1_XpBelowThreshold ==
    \A c \in ClassIdsOf(player) :
        Classes(player)[c].xp < Classes(player)[c].xpToNextLevel

(***************************************************************************)
(* C2.  completeQuest called twice in a row with the same (projectId,      *)
(* questId), at the same instant or a later one, leaves the whole Player   *)
(* after the second call equal to the Player after the first call.         *)
(***************************************************************************)
C2_CompleteQuestTwice ==
    \A p \in ProjectArgs(player), q \in QuestArgs(player) :
        \A t1 \in LaterClocksSet(now) :
            \A t2 \in LaterClocksSet(t1) :
                \A t3 \in LaterClocksSet(t2) :
                    LET first == completeQuest(player, p, q, now, t1)
                    IN  completeQuest(first, p, q, t2, t3) = first

\* a quest has just been completed: any repetition of that call meets a
\* project whose history and totalXp already carry the quest
C2_Witness ==
    /\ last = "completeQuest"
    /\ \E p \in ProjectIdsOf(player) :
          /\ Len(Projects(player)[p].history.s) > 0
          /\ Projects(player)[p].totalXp > 0
          /\ Projects(player)[p].quests.kv = EmptyKV
          /\ \E c \in ClassIdsOf(player) :
                /\ Projects(player)[p].history.s[1].classId = c
                /\ Classes(player)[c].xp = Projects(player)[p].history.s[1].xp

(***************************************************************************)
(* C3.  addQuest with an unknown projectId, an unknown classId or          *)
(* hours <= 0, and completeQuest with an unknown projectId or a questId    *)
(* that is not among that project's active quests, leave the whole Player  *)
(* as it was.                                                              *)
(***************************************************************************)
C3_FailedPreconditionIsNoOp ==
    /\ \A p \in ProjectArgs(player), c \in ClassArgs(player), h \in Hours,
          i \in NextIds(drawn) :
          (p \notin ProjectIdsOf(player) \/ c \notin ClassIdsOf(player) \/ h <= 0)
          => addQuestToProject(player, p, c, "Fix bug", h, Uuid(i), now)
             = player
    /\ \A p \in ProjectArgs(player), q \in QuestArgs(player) :
          (p \notin ProjectIdsOf(player)
           \/ q \notin DOMAIN Projects(player)[p].quests.kv)
          => \A later \in LaterClocksSet(now) :
                completeQuest(player, p, q, now, later) = player

\* addQuest was the last command and found a project and a class, yet the
\* Player holds no quest and no history entry: the call was rejected
C3_Witness ==
    /\ last = "addQuestToProject"
    /\ ProjectIdsOf(player) # {}
    /\ ClassIdsOf(player) # {}
    /\ QuestIdsOf(player) = {}
    /\ \A p \in ProjectIdsOf(player) : Projects(player)[p].history.s = <<>>

(***************************************************************************)
(* C4.  completeQuest on an existing project and one of its active quests  *)
(* q removes q from the active quests, adds to the history exactly one     *)
(* entry, which carries q's name, classId and xp, adds q.xp to totalXp,    *)
(* and gives q.xp to the class q.classId: the class's xp plus the          *)
(* thresholds it has passed grows by q.xp.  From an empty Player,          *)
(* createClass, createProject, addQuest(hours = 3), completeQuest yields a *)
(* project with one history entry of xp 3, totalXp 3 and no active quest,  *)
(* and a class at level 1 with xp 3.                                       *)
(***************************************************************************)
\* a with one entry taken out is b
IsOneMore(a, b, e) ==
    \E i \in 1..Len(a) :
        /\ a[i].questName = e.name /\ a[i].classId = e.classId /\ a[i].xp = e.xp
        /\ b = [j \in 1..(Len(a) - 1) |-> IF j < i THEN a[j] ELSE a[j + 1]]

\* the thresholds a class has passed between two of its states
Passed(before, after) ==
    IF after.level = before.level THEN 0
    ELSE before.xpToNextLevel + XpForLevels(before.level + 1, after.level)

Scenario(t, later) ==
    completeQuest(
        addQuestToProject(
            createProject(createClass(getPlayerData, "Coding", "#fff", Uuid(1)),
                          "Site", Uuid(2), t),
            Uuid(2), Uuid(1), "Fix bug", 3, Uuid(3), t),
        Uuid(2), Uuid(3), t, later)

IsScenarioResult(pl) ==
    /\ ProjectIdsOf(pl) = {Uuid(2)}
    /\ ClassIdsOf(pl) = {Uuid(1)}
    /\ Len(Projects(pl)[Uuid(2)].history.s) = 1
    /\ Projects(pl)[Uuid(2)].history.s[1].xp = 3
    /\ Projects(pl)[Uuid(2)].totalXp = 3
    /\ Projects(pl)[Uuid(2)].quests.kv = EmptyKV
    /\ Classes(pl)[Uuid(1)].level = 1
    /\ Classes(pl)[Uuid(1)].xp = 3

C4_CompleteQuestMovesQuest ==
    /\ \A p \in ProjectIdsOf(player) :
          \A q \in DOMAIN Projects(player)[p].quests.kv, later \in LaterClocksSet(now) :
              LET quest == Projects(player)[p].quests.kv[q]
                  after == completeQuest(player, p, q, now, later)
                  pb == Projects(player)[p]
                  pa == Projects(after)[p]
              IN  /\ DOMAIN pa.quests.kv = (DOMAIN pb.quests.kv) \ {q}
                  /\ Len(pa.history.s) = Len(pb.history.s) + 1
                  /\ IsOneMore(pa.history.s, pb.history.s, quest)
                  /\ pa.totalXp = pb.totalXp + quest.xp
                  /\ quest.classId \in ClassIdsOf(player) =>
                        LET cb == Classes(player)[quest.classId]
                            ca == Classes(after)[quest.classId]
                        IN  /\ ca.level >= cb.level
                            /\ ca.xp + Passed(cb, ca) = cb.xp + quest.xp
    /\ \A t \in Clocks : \A later \in LaterClocksSet(t) :
          IsScenarioResult(Scenario(t, later))

\* the scenario has run: class, project and quest were created in this
\* order and the quest was completed
C4_Witness ==
    /\ last = "completeQuest"
    /\ nextId = 3
    /\ IsScenarioResult(player)

(***************************************************************************)
(* The leveling runs: a Player that holds one class, at any level up to    *)
(* MaxLevel and any xp below its threshold, and one project with one quest *)
(* worth any gain up to MaxGain; completing the quest awards the gain.     *)
(***************************************************************************)
LevelUpPlayer(level, xp, gain) ==
    [classes |-> Put(MakeMap, "x1",
                     [id |-> "x1", name |-> "Coding", color |-> "#fff",
                      level |-> level, xp |-> xp,
                      xpToNextLevel |-> calculateXPForLevel(level)]),
     projects |-> Put(MakeMap, "x2",
                      [id |-> "x2", name |-> "Site", createdAt |-> TimeNow(StartClock),
                       lastActivity |-> TimeNow(StartClock),
                       quests |-> Put(MakeMap, "x3",
                                      [id |-> "x3", name |-> "Fix bug",
                                       classId |-> "x1", xp |-> gain]),
                       history |-> EmptySlice, totalXp |-> 0,
                       isArchived |-> FALSE])]

InitLevelUp ==
    /\ \E level \in 1..MaxLevel, gain \in 1..MaxGain :
          \E xp \in 0..(calculateXPForLevel(level) - 1) :
              player = LevelUpPlayer(level, xp, gain)
    /\ now = StartClock
    /\ nextId = 0
    /\ drawn = {}
    /\ last = "main"
    /\ ret = NoText

NextLevelUp == CompleteQuest

SpecLevelUp == InitLevelUp /\ [][NextLevelUp]_vars

(***************************************************************************)
(* C5.  Awarding a gain g > 0 to a class at level L0 >= 1 with             *)
(* 0 <= xp0 < xpToNextLevel = xpForLevel(L0) leaves it at the one          *)
(* (level L, xp) with 0 <= xp < xpToNextLevel = xpForLevel(L) and          *)
(* xp0 + g = xp + the sum of xpForLevel(k) for L0 <= k < L; a level-1      *)
(* class with xp 0 awarded xpForLevel(1) + xpForLevel(2) + 5 ends at       *)
(* level 3 with xp 5.                                                      *)
(***************************************************************************)
ClassInvariant(c) ==
    /\ c.level >= 1
    /\ 0 <= c.xp
    /\ c.xp < c.xpToNextLevel
    /\ c.xpToNextLevel = calculateXPForLevel(c.level)

Resolved(cb, g, ca) ==
    /\ ClassInvariant(ca)
    /\ ca.level >= cb.level
    /\ cb.xp + g = ca.xp + XpForLevels(cb.level, ca.level)
    \* no other level and xp fit
    /\ \A lv \in cb.level..(ca.level + 2) :
          \A x \in 0..(calculateXPForLevel(lv) - 1) :
              cb.xp + g = x + XpForLevels(cb.level, lv)
              => lv = ca.level /\ x = ca.xp
    /\ (cb.level = 1 /\ cb.xp = 0
        /\ g = calculateXPForLevel(1) + calculateXPForLevel(2) + 5)
       => ca.level = 3 /\ ca.xp = 5

C5_LevelUpResolution ==
    [][\A p \in ProjectIdsOf(player) :
          \A q \in DOMAIN Projects(player)[p].quests.kv :
              LET quest == Projects(player)[p].quests.kv[q]
              IN  (/\ last' = "completeQuest"
                   /\ player' = completeQuest(player, p, q, now, now')
                   /\ quest.classId \in ClassIdsOf(player)
                   /\ ClassInvariant(Classes(player)[quest.classId])
                   /\ quest.xp > 0)
                  => Resolved(Classes(player)[quest.classId], quest.xp,
                              Classes(player')[quest.classId])]_vars

\* the level-1 class was awarded 10 + 19 + 5 and stands at level 3 with xp 5
C5_Witness ==
    /\ last = "completeQuest"
    /\ \E p \in ProjectIdsOf(player) :
          /\ Len(Projects(player)[p].history.s) = 1
          /\ Projects(player)[p].history.s[1].xp = 34
    /\ \E c \in ClassIdsOf(player) :
          /\ Classes(player)[c].level = 3
          /\ Classes(player)[c].xp = 5
          /\ Classes(player)[c].xpToNextLevel = 24

(***************************************************************************)
(* C6.  archiveInactiveProjects leaves every archived project archived,    *)
(* and does not archive a project with now - lastActivity <= 30 days, the  *)
(* exact 30 days included; now and lastActivity are read as dates.         *)
(***************************************************************************)
C6_ArchiveIsSafe ==
    [][(last' = "archiveInactiveProjects"
        /\ player' = archiveInactiveProjects(player, now)) =>
          \A p \in ProjectIdsOf(player) :
              /\ p \in ProjectIdsOf(player')
              /\ Projects(player)[p].isArchived => Projects(player')[p].isArchived
              /\ (~Projects(player)[p].isArchived
                  /\ now.t - Projects(player)[p].lastActivity.t <= 30)
                 => ~Projects(player')[p].isArchived]_vars

\* archiveInactiveProjects has run over a project that was archived, which
\* still is, and over a project last active exactly thirty days before,
\* which it left alone
C6_Witness ==
    /\ last = "archiveInactiveProjects"
    /\ \E p \in ProjectIdsOf(player) : Projects(player)[p].isArchived
    /\ \E p \in ProjectIdsOf(player) :
          /\ ~Projects(player)[p].isArchived
          /\ now.t - Projects(player)[p].lastActivity.t = 30

(***************************************************************************)
(* C7.  Across createClass, createProject, addQuest, completeQuest and     *)
(* archiveInactiveProjects, a project with isArchived = true stays in the  *)
(* Player with isArchived = true.                                          *)
(***************************************************************************)
C7_ArchivedStaysArchived ==
    [][CommandStep =>
          \A p \in ProjectIdsOf(player) :
              Projects(player)[p].isArchived
              => /\ p \in ProjectIdsOf(player')
                 /\ Projects(player')[p].isArchived]_vars

\* a project archived for inactivity took a quest afterwards, its
\* lastActivity is the present instant, and it is still archived
C7_Witness ==
    /\ last \in {"addQuestToProject", "archiveInactiveProjects"}
    /\ \E p \in ProjectIdsOf(player) :
          /\ Projects(player)[p].isArchived
          /\ Projects(player)[p].quests.kv # EmptyKV
          /\ Projects(player)[p].createdAt.t = 0
          /\ Projects(player)[p].lastActivity.t = 31
          /\ Projects(player)[p].lastActivity.mono

(***************************************************************************)
(* C8.  In every state reached from initialize without load, every         *)
(* project's totalXp is >= 0 and is the sum of the xp of its history.      *)
(***************************************************************************)
C8_TotalXpIsHistorySum ==
    \A p \in ProjectIdsOf(player) :
        /\ Projects(player)[p].totalXp >= 0
        /\ Projects(player)[p].totalXp = SumXp(Projects(player)[p].history.s)

\* a project with two completed quests
C8_Witness ==
    \E p \in ProjectIdsOf(player) :
        /\ Len(Projects(player)[p].history.s) = 2
        /\ Projects(player)[p].totalXp
           = Projects(player)[p].history.s[1].xp + Projects(player)[p].history.s[2].xp
        /\ Projects(player)[p].totalXp > 0

(***************************************************************************)
(* C9.  For every project and every single createClass, createProject,     *)
(* addQuest, completeQuest or archiveInactiveProjects command, the history *)
(* before the command is a prefix of the history after it; a command that  *)
(* completes a quest of the project extends the history by exactly one     *)
(* entry, placed at the end, which carries the quest.                      *)
(***************************************************************************)
C9_HistoryIsAppendOnly ==
    [][CommandStep =>
          \A p \in ProjectIdsOf(player) :
              /\ p \in ProjectIdsOf(player')
              /\ IsPrefix(Projects(player)[p].history.s, Projects(player')[p].history.s)
              /\ \A q \in DOMAIN Projects(player)[p].quests.kv :
                    q \notin DOMAIN Projects(player')[p].quests.kv
                    => LET h == Projects(player')[p].history.s
                           quest == Projects(player)[p].quests.kv[q]
                       IN  /\ Len(h) = Len(Projects(player)[p].history.s) + 1
                           /\ h[Len(h)].questName = quest.name
                           /\ h[Len(h)].classId = quest.classId
                           /\ h[Len(h)].xp = quest.xp
                           /\ h[Len(h)].completedAt = TimeNow(now)
              /\ DOMAIN Projects(player)[p].quests.kv
                 \subseteq DOMAIN Projects(player')[p].quests.kv
                 => Projects(player')[p].history.s = Projects(player)[p].history.s]_vars

\* a quest was completed in a project that already had a history entry, and
\* the two entries differ
C9_Witness ==
    /\ last = "completeQuest"
    /\ \E p \in ProjectIdsOf(player) :
          /\ Len(Projects(player)[p].history.s) = 2
          /\ Projects(player)[p].history.s[1].xp # Projects(player)[p].history.s[2].xp

(***************************************************************************)
(* C10.  After load of a well-formed text, classes and projects are        *)
(* present, every project's quests and history are present, and every      *)
(* other field is the one the text gives.                                  *)
(***************************************************************************)
\* the loaded value, with absent containers as Go decodes them (nil)
AsGiven(text) == UnmarshalPlayer(Parse(text))

ContainersPresent(pl) ==
    /\ ~pl.classes.isNil
    /\ ~pl.projects.isNil
    /\ \A p \in ProjectIdsOf(pl) :
          ~Projects(pl)[p].quests.isNil /\ ~Projects(pl)[p].history.isNil

KeptAsGiven(text, pl) ==
    /\ Classes(pl) = AsGiven(text).classes.kv
    /\ ProjectIdsOf(pl) = DOMAIN AsGiven(text).projects.kv
    /\ \A p \in ProjectIdsOf(pl) :
          LET given == AsGiven(text).projects.kv[p]
              got == Projects(pl)[p]
          IN  /\ got.id = given.id /\ got.name = given.name
              /\ got.createdAt = given.createdAt
              /\ got.lastActivity = given.lastActivity
              /\ got.totalXp = given.totalXp
              /\ got.isArchived = given.isArchived
              /\ got.quests.kv = given.quests.kv
              /\ got.history.s = given.history.s

C10_LoadNormalizes ==
    [][last' = "loadPlayerData" =>
          \A text \in LoadTexts :
              (player' = loadPlayerData(text) /\ ~UnmarshalFails(text))
              => ContainersPresent(player') /\ KeptAsGiven(text, player')]_vars

\* a text was loaded in which one project has no quests and no history and
\* another has both: the first now holds an empty mapping and an empty sequence
C10_Witness ==
    /\ last = "loadPlayerData"
    /\ \E p \in ProjectIdsOf(player) :
          /\ Projects(player)[p].quests = MakeMap
          /\ Projects(player)[p].history = EmptySlice
    /\ \E p \in ProjectIdsOf(player) :
          /\ Projects(player)[p].quests.kv # EmptyKV
          /\ Projects(player)[p].history.s # <<>>

(***************************************************************************)
(* The runs in which every text handed to loadPlayerData is unusable: the  *)
(* empty string, "null", "{}", a text that is not JSON, or JSON of the     *)
(* wrong shape.                                                            *)
(***************************************************************************)
UnusableTexts ==
    {TextLit(""), TextLit("null"), TextLit("{}"), TextMalformed, WrongShape,
     FloatForInt, BeyondInt64, SecondValueWrong}

\* loadPlayerData assigning the fresh Player only on the success path, so
\* that a text that does not decode leaves the Player as it was
LoadUnusable_KeepsPlayer ==
    \E jsonString \in UnusableTexts :
        /\ player' = IF UnmarshalFails(jsonString) THEN player
                     ELSE loadPlayerData(jsonString)
        /\ ret' = mustMarshal(player')
        /\ last' = "loadPlayerData"
        /\ UNCHANGED <<now, nextId, drawn>>

LoadUnusable ==
    \E jsonString \in UnusableTexts :
        /\ player' = loadPlayerData(jsonString)
        /\ ret' = mustMarshal(player')
        /\ last' = "loadPlayerData"
        /\ UNCHANGED <<now, nextId, drawn>>

NextUnusableLoads ==
    \/ LoadUnusable
    \/ NextCommands

SpecUnusableLoads == Init /\ [][NextUnusableLoads]_vars

(***************************************************************************)
(* C11.  Load of the empty string, of "null", of "{}" or of malformed text *)
(* leaves the Player with empty classes and empty projects, whatever it    *)
(* held before, and the command returns the text of that empty Player.     *)
(***************************************************************************)
C11_LoadIsFailSoft ==
    last = "loadPlayerData" =>
        /\ player.classes = MakeMap
        /\ player.projects = MakeMap
        /\ ret = TextJson(JObj(<<Member("classes", JObj(<<>>)),
                                 Member("projects", JObj(<<>>))>>))

\* ids were handed out, so classes, projects or quests were made, and the
\* load that followed left nothing of them
C11_Witness ==
    /\ last = "loadPlayerData"
    /\ Cardinality(drawn) >= 2
    /\ player = NewPlayer

(***************************************************************************)
(* The runs in which the page stores the text a command returned and hands *)
(* that very text back to loadPlayerData.                                  *)
(***************************************************************************)
LoadReturned ==
    /\ ret # NoText
    /\ player' = loadPlayerData(ret)
    /\ ret' = mustMarshal(player')
    /\ last' = "loadPlayerData"
    /\ UNCHANGED <<now, nextId, drawn>>

NextRoundTrip ==
    \/ LoadReturned
    \/ NextFromInitialize

SpecRoundTrip == Init /\ [][NextRoundTrip]_vars

\* a Player with a class, a project, an active quest and a completed quest
Populated(pl) ==
    /\ ClassIdsOf(pl) # {}
    /\ ProjectIdsOf(pl) # {}
    /\ QuestIdsOf(pl) # {}
    /\ \E p \in ProjectIdsOf(pl) : Len(Projects(pl)[p].history.s) > 0

\* two history entries with the same fields, the completion at the same instant
SameEntry(a, b) ==
    /\ a.questName = b.questName
    /\ a.classId = b.classId
    /\ a.xp = b.xp
    /\ a.completedAt.t = b.completedAt.t

\* two projects with the same fields: id, name, totalXp and isArchived, the
\* same instants of creation and of last activity, the same active quests,
\* and the same history entries in the same order
SameProject(a, b) ==
    /\ a.id = b.id /\ a.name = b.name
    /\ a.totalXp = b.totalXp /\ a.isArchived = b.isArchived
    /\ a.createdAt.t = b.createdAt.t
    /\ a.lastActivity.t = b.lastActivity.t
    /\ a.quests = b.quests
    /\ a.history.isNil = b.history.isNil
    /\ Len(a.history.s) = Len(b.history.s)
    /\ \A i \in DOMAIN a.history.s : SameEntry(a.history.s[i], b.history.s[i])

(***************************************************************************)
(* C12.  Loading the text a command returned for a populated Player yields *)
(* a Player structurally equal to it: the same class ids and fields, the   *)
(* same project ids and fields, the same active quests, the same history   *)
(* entries in the same order.  A timestamp is compared as the instant it   *)
(* denotes.                                                                *)
(***************************************************************************)
C12_RoundTripIsStructurallyEqual ==
    [][(last' = "loadPlayerData" /\ Populated(player)) =>
          /\ player'.classes = player.classes
          /\ player'.projects.isNil = player.projects.isNil
          /\ ProjectIdsOf(player') = ProjectIdsOf(player)
          /\ \A p \in ProjectIdsOf(player) :
                SameProject(Projects(player')[p], Projects(player)[p])]_vars

\* a populated Player that came out of a load and still holds something a
\* command stamped before the load
C12_Witness ==
    /\ last = "loadPlayerData"
    /\ Populated(player)
    /\ \E p \in ProjectIdsOf(player) :
          /\ ~Projects(player)[p].lastActivity.mono
          /\ Projects(player)[p].lastActivity.t = 31
          /\ Projects(player)[p].createdAt.t = 0

(***************************************************************************)
(* C13.  For every level L >= 1, xpForLevel(L) is the positive integer     *)
(* ceil(10*L^1.5 - 10*(L-1)^1.5); a level below 1 is treated as level 1;   *)
(* and the class that createClass has just made has                        *)
(* xpToNextLevel = xpForLevel(1) > 0.                                      *)
(***************************************************************************)
MaxCurveLevel == 8

\* ceil(10*L^1.5 - 10*(L-1)^1.5) for L = 1..12, worked out in float64 as
\* the source does
CurveTable == <<10, 19, 24, 29, 32, 36, 39, 42, 44, 47, 49, 51>>

\* n - 1 < 10*L^1.5 - 10*(L-1)^1.5 <= n
IsCeilingOfCurve(n, L) ==
    LET a == 100 * L * L * L
        b == 100 * (L - 1) * (L - 1) * (L - 1)
    IN  /\ AtLeastDiffOfRoots(n, a, b)
        /\ ~AtLeastDiffOfRoots(n - 1, a, b)

CurveIsPositiveCeiling ==
    /\ \A L \in 1..MaxCurveLevel :
          /\ calculateXPForLevel(L) > 0
          /\ calculateXPForLevel(L) = CurveTable[L]
          /\ IsCeilingOfCurve(calculateXPForLevel(L), L)
    /\ \A L \in (-MaxCurveLevel)..0 :
          calculateXPForLevel(L) = calculateXPForLevel(1)

C13_XpForLevelIsPositive ==
    /\ CurveIsPositiveCeiling
    /\ last = "createClass" =>
          /\ Uuid(nextId) \in ClassIdsOf(player)
          /\ Classes(player)[Uuid(nextId)].xpToNextLevel = calculateXPForLevel(1)
          /\ Classes(player)[Uuid(nextId)].xpToNextLevel > 0
    /\ \A c \in ClassIdsOf(player) :
          /\ Classes(player)[c].xpToNextLevel > 0
          /\ Classes(player)[c].level >= 1
          /\ Classes(player)[c].xpToNextLevel
                = CurveTable[Classes(player)[c].level]

\* a second class has just been made, next to one that has climbed the
\* curve to level 3
C13_Witness ==
    /\ last = "createClass"
    /\ Classes(player)[Uuid(nextId)].xpToNextLevel = 10
    /\ \E c \in ClassIdsOf(player) :
          /\ Classes(player)[c].level = 3
          /\ Classes(player)[c].xpToNextLevel = 24

(***************************************************************************)
(* C14.  completeQuest on a quest whose classId is not the id of a class   *)
(* of the Player still completes the quest: the history entry is appended, *)
(* totalXp grows by the quest's xp, the quest is removed and lastActivity  *)
(* is the clock's reading (the second one the command takes, the first     *)
(* being the entry's completedAt), while player.classes is exactly as      *)
(* before.                                                                 *)
(***************************************************************************)
C14_DanglingClassStillCompletes ==
    \A p \in ProjectIdsOf(player) :
        \A q \in DOMAIN Projects(player)[p].quests.kv, later \in LaterClocksSet(now) :
            LET project == Projects(player)[p]
                quest == project.quests.kv[q]
                after == completeQuest(player, p, q, now, later)
                done == Projects(after)[p]
            IN  ~Has(player.classes, quest.classId) =>
                    /\ after.classes = player.classes
                    /\ ProjectIdsOf(after) = ProjectIdsOf(player)
                    /\ done.history.s = Append(project.history.s,
                          [questName |-> quest.name, classId |-> quest.classId,
                           xp |-> quest.xp, completedAt |-> TimeNow(now)])
                    /\ done.totalXp = project.totalXp + quest.xp
                    /\ DOMAIN done.quests.kv = DOMAIN project.quests.kv \ {q}
                    /\ done.lastActivity = TimeNow(later)

\* a quest of a class the Player does not hold has been completed by the
\* command: its entry closes the history, stamped by the first reading of
\* the clock, and lastActivity holds the second, later one
C14_Witness ==
    /\ last = "completeQuest"
    /\ \E p \in ProjectIdsOf(player) :
          LET h == Projects(player)[p].history.s
          IN  /\ Len(h) >= 2
              /\ h[Len(h)].completedAt = TimeNow(StartClock)
              /\ ~Has(player.classes, h[Len(h)].classId)
              /\ Projects(player)[p].totalXp = SumXp(h)
              /\ Projects(player)[p].lastActivity = TimeNow(now)
              /\ now.m > 0

(***************************************************************************)
(* C15.  One call of archiveInactiveProjects leaves the set of project ids *)
(* and all classes unchanged, and gives each project                       *)
(* isArchived = (isArchived before) OR (now - lastActivity > 30 days), now *)
(* and lastActivity read as dates, with every other field (name,           *)
(* createdAt, lastActivity, quests, history, totalXp) unchanged.           *)
(***************************************************************************)
C15_ArchiveSetsOnlyTheFlag ==
    LET after == archiveInactiveProjects(player, now)
    IN  /\ after.classes = player.classes
        /\ after.projects.isNil = player.projects.isNil
        /\ ProjectIdsOf(after) = ProjectIdsOf(player)
        /\ \A p \in ProjectIdsOf(player) :
              Projects(after)[p] =
                  [Projects(player)[p] EXCEPT !.isArchived =
                      \/ Projects(player)[p].isArchived
                      \/ now.t - Projects(player)[p].lastActivity.t > 30]

\* the call has archived a project made in this process thirty-one days
\* before, next to a project it left active
C15_Witness ==
    /\ last = "archiveInactiveProjects"
    /\ \E p \in ProjectIdsOf(player) :
          /\ Projects(player)[p].isArchived
          /\ Projects(player)[p].lastActivity.mono
          /\ now.t - Projects(player)[p].lastActivity.t = 31
    /\ \E p \in ProjectIdsOf(player) :
          /\ ~Projects(player)[p].isArchived
          /\ now.t - Projects(player)[p].lastActivity.t <= 30

(***************************************************************************)
(* C16.  createProject, addQuest and archiveInactiveProjects leave         *)
(* player.classes unchanged; createClass adds exactly one class under an   *)
(* id not present before, with level 1, xp 0 and xpToNextLevel =           *)
(* xpForLevel(1), and leaves every existing class unchanged; completeQuest *)
(* changes at most the one class named by the completed quest's classId;   *)
(* across these commands the set of class ids never shrinks.               *)
(***************************************************************************)
\* the classes that a step changed, made or dropped
ChangedClasses ==
    {c \in ClassIdsOf(player) \cup ClassIdsOf(player') :
        \/ c \notin ClassIdsOf(player)
        \/ c \notin ClassIdsOf(player')
        \/ Classes(player')[c] # Classes(player)[c]}

\* the classIds of the quests that a step took out of the active quests
CompletedClassIds ==
    {Projects(player)[p].quests.kv[q].classId :
        <<p, q>> \in {pq \in ProjectIdsOf(player) \X QuestIdsOf(player) :
                        /\ pq[2] \in DOMAIN Projects(player)[pq[1]].quests.kv
                        /\ pq[1] \in ProjectIdsOf(player')
                        /\ pq[2] \notin DOMAIN Projects(player')[pq[1]].quests.kv}}

C16_ClassesFrame ==
    [][(CommandStep /\ ~ClockStep) =>
          /\ ClassIdsOf(player) \subseteq ClassIdsOf(player')
          /\ last' \in {"createProject", "addQuestToProject",
                        "archiveInactiveProjects"}
             => player'.classes = player.classes
          /\ last' = "createClass"
             => /\ Cardinality(ClassIdsOf(player') \ ClassIdsOf(player)) = 1
                /\ \A c \in ClassIdsOf(player) :
                      Classes(player')[c] = Classes(player)[c]
                /\ \A c \in ClassIdsOf(player') \ ClassIdsOf(player) :
                      /\ Classes(player')[c].id = c
                      /\ Classes(player')[c].level = 1
                      /\ Classes(player')[c].xp = 0
                      /\ Classes(player')[c].xpToNextLevel = calculateXPForLevel(1)
          /\ last' = "completeQuest"
             => /\ Cardinality(ChangedClasses) <= 1
                /\ ChangedClasses \subseteq CompletedClassIds]_vars

\* createClass has just made a class next to one that quests had already
\* raised
C16_Witness ==
    /\ last = "createClass"
    /\ Cardinality(ClassIdsOf(player)) = 2
    /\ Classes(player)[Uuid(nextId)].xp = 0
    /\ Classes(player)[Uuid(nextId)].level = 1
    /\ \E c \in ClassIdsOf(player) : Classes(player)[c].level > 1

(***************************************************************************)
(* C17.  The level-up loop run by completeQuest terminates for every class *)
(* of the Player, loaded ones included, and every XP award: at every       *)
(* iteration xpToNextLevel is positive and xp strictly decreases, until xp *)
(* is below the threshold.                                                 *)
(***************************************************************************)
RECURSIVE VariantDecreases(_)
\* the loop started on class: at each turn the threshold is positive and xp
\* goes down
VariantDecreases(class) ==
    IF class.xp >= class.xpToNextLevel
    THEN /\ class.xpToNextLevel > 0
         /\ LevelUpIteration(class).xp < class.xp
         /\ VariantDecreases(LevelUpIteration(class))
    ELSE TRUE

C17_LoopVariantDecreases ==
    \A p \in ProjectIdsOf(player) :
        \A q \in DOMAIN Projects(player)[p].quests.kv :
            LET quest == Projects(player)[p].quests.kv[q]
            IN  Has(player.classes, quest.classId) =>
                    LET class == Classes(player)[quest.classId]
                    IN  VariantDecreases(
                            [class EXCEPT !.xp = WrapInt(class.xp + quest.xp)])

(***************************************************************************)
(* C18.  In every state reached from initialize without load, the classId  *)
(* of every active quest and of every history entry is the id of a class   *)
(* of the Player, and every active quest has xp > 0; so completeQuest      *)
(* finds the class of whatever quest it completes.                         *)
(***************************************************************************)
C18_ClassIdsResolve ==
    \A p \in ProjectIdsOf(player) :
        /\ \A q \in DOMAIN Projects(player)[p].quests.kv :
              /\ Has(player.classes, Projects(player)[p].quests.kv[q].classId)
              /\ Projects(player)[p].quests.kv[q].xp > 0
        /\ \A i \in DOMAIN Projects(player)[p].history.s :
              Has(player.classes, Projects(player)[p].history.s[i].classId)

\* a project with an active quest and a completed quest, both of the one
\* class of the Player
C18_Witness ==
    \E p \in ProjectIdsOf(player) :
        \E q \in DOMAIN Projects(player)[p].quests.kv :
            /\ Len(Projects(player)[p].history.s) = 1
            /\ Has(player.classes, Projects(player)[p].quests.kv[q].classId)
            /\ Has(player.classes, Projects(player)[p].history.s[1].classId)
            /\ Projects(player)[p].quests.kv[q].xp = 3
            /\ Cardinality(ClassIdsOf(player)) = 1

(***************************************************************************)
(* C19.  In every state reached from initialize without load, every class  *)
(* c has level >= 1 and xpToNextLevel = xpForLevel(level), and c.xp plus   *)
(* the sum of xpForLevel(k) for 1 <= k < c.level is the sum of the xp of   *)
(* the history entries of all projects whose classId is c.id; so the sum   *)
(* of all projects' totalXp is the XP credited to all classes; and no      *)
(* command lowers the level of a class.                                    *)
(***************************************************************************)
RECURSIVE SumXpOfClass(_, _)
\* the sum of the xp of the entries of a history that name class c
SumXpOfClass(h, c) ==
    IF h = <<>> THEN 0
    ELSE (IF h[1].classId = c THEN h[1].xp ELSE 0) + SumXpOfClass(Tail(h), c)

RECURSIVE SumOver(_, _)
\* the sum of f[x] for x in the set S
SumOver(f, S) ==
    IF S = {} THEN 0
    ELSE LET x == CHOOSE y \in S : TRUE
         IN  f[x] + SumOver(f, S \ {x})

\* the XP ever credited to a class: what its levels took plus what is left
Credited(class) == class.xp + XpForLevels(1, class.level)

\* the XP that the histories of all projects of pl record for class c
Recorded(pl, c) ==
    SumOver([p \in ProjectIdsOf(pl) |-> SumXpOfClass(Projects(pl)[p].history.s, c)],
            ProjectIdsOf(pl))

XpIsConserved(pl) ==
    /\ \A c \in ClassIdsOf(pl) :
          /\ Classes(pl)[c].level >= 1
          /\ Classes(pl)[c].xpToNextLevel = calculateXPForLevel(Classes(pl)[c].level)
          /\ Credited(Classes(pl)[c]) = Recorded(pl, c)
    /\ SumOver([p \in ProjectIdsOf(pl) |-> Projects(pl)[p].totalXp], ProjectIdsOf(pl))
       = SumOver([c \in ClassIdsOf(pl) |-> Credited(Classes(pl)[c])], ClassIdsOf(pl))

C19_XpIsConservedPerClass ==
    [][/\ XpIsConserved(player')
       /\ \A c \in ClassIdsOf(player) \cap ClassIdsOf(player') :
             Classes(player')[c].level >= Classes(player)[c].level]_vars

\* a quest worth 34 XP has taken a class through levels 1 and 2 (10 + 19)
\* to level 3 with 5 XP left over
C19_Witness ==
    /\ last = "completeQuest"
    /\ \E c \in ClassIdsOf(player) :
          /\ Classes(player)[c].level = 3
          /\ Classes(player)[c].xp = 5
          /\ Recorded(player, c) = 34
    /\ \E p \in ProjectIdsOf(player) : Projects(player)[p].totalXp = 34

(***************************************************************************)
(* C20.  On an archived project, addQuest with an existing class and       *)
(* positive hours inserts the quest and sets lastActivity to now, and      *)
(* completeQuest of one of its quests completes it (the quest leaves the   *)
(* active quests, the history grows by one entry, totalXp grows by the     *)
(* quest's xp, the quest's class gains the xp or a level, lastActivity is  *)
(* now); in both cases isArchived stays true, and a later                  *)
(* archiveInactiveProjects leaves the project archived.                    *)
(***************************************************************************)
StaysArchived(pl, p) ==
    /\ Projects(pl)[p].isArchived
    /\ \A t \in Clocks :
          t.m >= now.m => Projects(archiveInactiveProjects(pl, t))[p].isArchived

C20_ArchivedProjectIsNotFrozen ==
    \A p \in ProjectIdsOf(player) :
        Projects(player)[p].isArchived =>
            /\ \A c \in ClassIdsOf(player), hours \in {h \in Hours : h > 0},
                  i \in NextIds(drawn) :
                  LET after == addQuestToProject(player, p, c, "Fix bug", hours,
                                                 Uuid(i), now)
                  IN  /\ DOMAIN Projects(after)[p].quests.kv
                         = DOMAIN Projects(player)[p].quests.kv \cup {Uuid(i)}
                      /\ Projects(after)[p].quests.kv[Uuid(i)]
                         = [id |-> Uuid(i), name |-> "Fix bug",
                            classId |-> c, xp |-> hours]
                      /\ Projects(after)[p].lastActivity = TimeNow(now)
                      /\ StaysArchived(after, p)
            /\ \A q \in DOMAIN Projects(player)[p].quests.kv, later \in LaterClocksSet(now) :
                  LET quest == Projects(player)[p].quests.kv[q]
                      after == completeQuest(player, p, q, now, later)
                  IN  /\ q \notin DOMAIN Projects(after)[p].quests.kv
                      /\ Len(Projects(after)[p].history.s)
                         = Len(Projects(player)[p].history.s) + 1
                      /\ Projects(after)[p].totalXp
                         = Projects(player)[p].totalXp + quest.xp
                      /\ (Has(player.classes, quest.classId) /\ quest.xp > 0) =>
                            LET cb == Classes(player)[quest.classId]
                                ca == Classes(after)[quest.classId]
                            IN  \/ ca.level > cb.level
                                \/ ca.level = cb.level /\ ca.xp = cb.xp + quest.xp
                      /\ Projects(after)[p].lastActivity = TimeNow(later)
                      /\ StaysArchived(after, p)

\* a project made by the commands was archived for inactivity; afterwards a
\* quest of it was completed and another added, and it is still archived
C20_Witness ==
    /\ last = "addQuestToProject"
    /\ \E p \in ProjectIdsOf(player) :
          /\ Projects(player)[p].isArchived
          /\ Projects(player)[p].createdAt = TimeNow(StartClock)
          /\ Projects(player)[p].lastActivity = TimeNow([t |-> 31, m |-> 31])
          /\ Len(Projects(player)[p].history.s) = 1
          /\ Projects(player)[p].history.s[1].completedAt
             = TimeNow([t |-> 31, m |-> 31])
          /\ Projects(player)[p].quests.kv # EmptyKV
          /\ Has(player.classes, Projects(player)[p].history.s[1].classId)
          /\ Projects(player)[p].totalXp > 0

====
